---- MODULE Spec2Model ----
(***************************************************************************)
(* fix-md-tables: the table alignment compensation engine.                 *)
(*                                                                         *)
(* A text is a sequence of characters, each a one-character string.  The   *)
(* alphabet keeps one representative of every class the code tells apart:  *)
(*   "|" pipe, "-" dash, ":" colon, " " ordinary space,                    *)
(*   "F" the ideographic space U+3000 (the filler unit),                   *)
(*   "E" a code point inside EMOJI_REGEX (a double-width glyph),           *)
(*   "a" any other visible character, "!" the backtick, "~" tilde,         *)
(*   "\n" line feed.                                                       *)
(* Str("| a |") writes a text from a string literal.                       *)
(***************************************************************************)
EXTENDS Integers, Sequences, FiniteSets, TLC

VARIABLES
    content,      \* the text handed to the running pass
    plan,         \* table processors still to run, the head is the running one
    lines,        \* content.split("\n")
    result,       \* result[] of traverseMarkdownTables
    i,            \* the 0-based line index of the scan
    inCodeBlock,  \* fence state
    codeFence,    \* fence state: the stored marker
    pc,           \* "scan" | "done" | "raised", or the call of a pure function
    output,       \* the string returned by the running pass (when pc = "done")
    iters,        \* iterations of the while loop made by the running pass
    blocks,       \* history: the table blocks handed to the table processor
    outs,         \* history: the strings returned by the completed passes
    first,        \* history: the text the first pass was given
    argCell,      \* compensateRegularCell: the cell it is called with
    argComp,      \* compensateRegularCell: the compensation it is called with
    argMax,       \* calculateCompensation: the maxEmoji it is called with
    argCount,     \* calculateCompensation: the cellEmoji it is called with
    argStr,       \* countEmoji, isTableSeparatorLine: the string it is called with
    args,         \* run: the arguments it is called with
    cleanMode,    \* run: args.includes("--clean")
    files,        \* run: the files to process
    fileIdx,      \* run: the number of files the for loop has handled
    processedCount, \* run: the files processFile has reported as written
    disk,         \* the file system: the state of the file at each path
    warned,       \* the unknown flags console.warn has reported
    calls,        \* history: the calls of processFile, with the file before and after
    ret           \* the value the pure function returned

vars == <<content, plan, lines, result, i, inCodeBlock, codeFence, pc, output,
          iters, blocks, outs, first, argCell, argComp, argMax, argCount, argStr,
          args, cleanMode, files, fileIdx, processedCount, disk, warned, calls,
          ret>>

Str(s) == [k \in 1..Len(s) |-> SubSeq(s, k, k)]

-----------------------------------------------------------------------------
(* Constants of the program *)

PIPE == "|"
NL == "\n"
SP == " "
IDEOGRAPHIC_SPACE == "F"

\* The characters of the model and the code points they stand for: the
\* characters of the table syntax, a letter, the filler unit, a glyph, the
\* variation selector, and the code points at and next to the ends of the
\* ranges of EMOJI_REGEX and of the Extended-A block.
CodePoints ==
    { <<"\n", 10>>, <<" ", 32>>, <<"-", 45>>, <<":", 58>>, <<"a", 97>>,
      <<"!", 96>>, <<"|", 124>>, <<"~", 126>>,
      <<"F", 12288>>,   \* U+3000
      <<"V", 65039>>,   \* U+FE0F
      <<"E", 128512>>,  \* U+1F600
      <<"p", 127743>>, <<"0", 127744>>, <<"1", 129535>>, <<"q", 129536>>,
      <<"r", 9727>>, <<"2", 9728>>, <<"3", 9983>>,
      <<"4", 9984>>, <<"5", 10175>>, <<"s", 10176>>,
      <<"t", 8985>>, <<"6", 8986>>, <<"7", 9210>>, <<"u", 9211>>,
      <<"v", 11087>>, <<"8", 11088>>, <<"9", 11093>>, <<"w", 11094>>,
      <<"m", 8447>>, <<"M", 8448>>, <<"L", 8505>>, <<"N", 8527>>, <<"n", 8528>>,
      <<"x", 129647>>, <<"X", 129648>>, <<"Y", 129791>>, <<"y", 129792>> }

CodePoint(c) == (CHOOSE e \in CodePoints : e[1] = c)[2]

\* The ranges of EMOJI_REGEX, first and last code point of each.
EMOJI_REGEX ==
    { <<127744, 129535>>,   \* 1F300-1F9FF
      <<9728, 9983>>,       \* 2600-26FF
      <<9984, 10175>>,      \* 2700-27BF
      <<8986, 9210>>,       \* 231A-23FA
      <<11088, 11093>>,     \* 2B50-2B55
      <<8448, 8527>> }      \* 2100-214F

\* a character one alternative of EMOJI_REGEX matches
EmojiMatch(c) ==
    \E range \in EMOJI_REGEX : range[1] <= CodePoint(c) /\ CodePoint(c) <= range[2]

EmojiChars == {e[1] : e \in {d \in CodePoints : EmojiMatch(d[1])}}
FIX == "fix"
CLEAN == "clean"

\* /\s/ of JavaScript: the ordinary space and U+3000 are both white space
\* (so is the line feed, which no line holds after split).
IsWhitespace(c) == c \in {SP, IDEOGRAPHIC_SPACE, NL}

-----------------------------------------------------------------------------
(* String primitives of the language, as the code uses them *)

RECURSIVE TrimStart(_)
TrimStart(s) ==
    IF s # <<>> /\ IsWhitespace(Head(s)) THEN TrimStart(Tail(s)) ELSE s

RECURSIVE TrimEnd(_)
TrimEnd(s) ==
    IF s # <<>> /\ IsWhitespace(s[Len(s)])
    THEN TrimEnd(SubSeq(s, 1, Len(s) - 1))
    ELSE s

Trim(s) == TrimEnd(TrimStart(s))

StartsWith(s, p) == Len(s) >= Len(p) /\ SubSeq(s, 1, Len(p)) = p

Includes(s, c) == \E k \in 1..Len(s) : s[k] = c

\* String.prototype.split with a one-character separator: one piece more
\* than there are separators, never an empty array.
RECURSIVE SplitOn(_, _)
SplitOn(s, d) ==
    IF ~Includes(s, d) THEN <<s>>
    ELSE LET k == CHOOSE k \in 1..Len(s) :
                      s[k] = d /\ \A j \in 1..(k - 1) : s[j] # d
         IN  <<SubSeq(s, 1, k - 1)>> \o SplitOn(SubSeq(s, k + 1, Len(s)), d)

\* Array.prototype.join with a one-character separator.
RECURSIVE JoinWith(_, _)
JoinWith(parts, d) ==
    IF parts = <<>> THEN <<>>
    ELSE IF Len(parts) = 1 THEN parts[1]
    ELSE parts[1] \o <<d>> \o JoinWith(Tail(parts), d)

Repeat(c, n) == [k \in 1..n |-> c]

Min2(a, b) == IF a <= b THEN a ELSE b
Max2(a, b) == IF a >= b THEN a ELSE b

-----------------------------------------------------------------------------
(* Pure helper functions *)

\* Mutant: the expression without the g flag, which finds one match at most.
countEmoji_FirstMatch(str) ==
    IF \E k \in 1..Len(str) : str[k] \in EmojiChars THEN 1 ELSE 0

countEmoji(str) == Cardinality({k \in 1..Len(str) : str[k] \in EmojiChars})

\* Mutant: stripIdeographicSpaces of the first release, which deletes the
\* filler units instead of replacing each by two spaces.
stripIdeographicSpaces(str) ==
    LET keep == {k \in 1..Len(str) : str[k] # IDEOGRAPHIC_SPACE}
        Nth(n) == CHOOSE k \in keep : Cardinality({j \in keep : j <= k}) = n
    IN  [n \in 1..Cardinality(keep) |-> str[Nth(n)]]

\* Mutant: replace in the place of replaceAll, which rewrites the first
\* filler unit only.
RECURSIVE normalizeIdeographicSpaces_FirstOnly(_)
normalizeIdeographicSpaces_FirstOnly(str) ==
    IF str = <<>> THEN <<>>
    ELSE IF Head(str) = IDEOGRAPHIC_SPACE THEN <<SP, SP>> \o Tail(str)
    ELSE <<Head(str)>> \o normalizeIdeographicSpaces_FirstOnly(Tail(str))

RECURSIVE normalizeIdeographicSpaces(_)
normalizeIdeographicSpaces(str) ==
    IF str = <<>> THEN <<>>
    ELSE (IF Head(str) = IDEOGRAPHIC_SPACE THEN <<SP, SP>> ELSE <<Head(str)>>)
         \o normalizeIdeographicSpaces(Tail(str))

isTableRow(line) ==
    LET trimmed == Trim(line)
    IN  StartsWith(trimmed, <<PIPE>>) /\ trimmed # <<>> /\ trimmed[Len(trimmed)] = PIPE

\* Mutant: the character class of the pattern admits every character.
isTableSeparatorLine_AnyRow(line) == isTableRow(line) /\ Len(Trim(line)) >= 3

\* TABLE_SEPARATOR_LINE_REGEX = /^\s*\|[\s:|\-　]+\|\s*$/ : white space, a
\* pipe, one or more characters of the class, a pipe, white space.  The
\* first and the last character that are not white space must be the two
\* pipes, with at least one character of the class between them.
isTableSeparatorLine(line) ==
    LET t == Trim(line)
    IN  /\ Len(t) >= 3
        /\ t[1] = PIPE
        /\ t[Len(t)] = PIPE
        /\ \A k \in 2..(Len(t) - 1) :
               IsWhitespace(t[k]) \/ t[k] \in {":", PIPE, "-"}

\* trimmed.slice(1, -1).split("|")
parseTableRow(row) ==
    LET trimmed == Trim(row)
        inner   == SubSeq(trimmed, 2, Len(trimmed) - 1)
    IN  SplitOn(inner, PIPE)

buildTableRow(cells) == <<PIPE>> \o JoinWith(cells, PIPE) \o <<PIPE>>

countIdeographicSpaces(str) ==
    Cardinality({k \in 1..Len(str) : str[k] = IDEOGRAPHIC_SPACE})

\* The two loops of the function body: rows 2.. (0-based), then the cells of
\* the row.  acc is maxEmojiPerCol, a sequence of numCols numbers.
RECURSIVE MaxOverCells(_, _, _)
MaxOverCells(acc, row, col) ==
    IF col > Len(row) THEN acc
    ELSE MaxOverCells([acc EXCEPT ![col] = Max2(acc[col], countEmoji(row[col]))],
                      row, col + 1)

RECURSIVE MaxOverRows(_, _, _)
MaxOverRows(acc, parsedRows, rowIdx) ==
    IF rowIdx > Len(parsedRows) THEN acc
    ELSE MaxOverRows(MaxOverCells(acc, parsedRows[rowIdx], 1), parsedRows, rowIdx + 1)

\* Mutant: the loop starts at row 0, so the header and the separator count.
calculateMaxEmojiPerColumn_AllRows(parsedRows, numCols) ==
    MaxOverRows(Repeat(0, numCols), parsedRows, 1)

\* rowIdx starts at 2 in the code, which is the third row.
calculateMaxEmojiPerColumn(parsedRows, numCols) ==
    MaxOverRows(Repeat(0, numCols), parsedRows, 3)

\* The two index walks of splitCellContent; k counts characters.
RECURSIVE LeadingEnd(_, _)
LeadingEnd(c, k) ==
    IF k < Len(c) /\ IsWhitespace(c[k + 1]) THEN LeadingEnd(c, k + 1) ELSE k

RECURSIVE TrailingStart(_, _, _)
TrailingStart(c, leadingEnd, k) ==
    IF k > leadingEnd /\ IsWhitespace(c[k]) THEN TrailingStart(c, leadingEnd, k - 1) ELSE k

\* Mutant: the walk from the end is not stopped at the end of the walk from
\* the start.
splitCellContent_UnboundedTrail(c) ==
    LET leadingEnd    == LeadingEnd(c, 0)
        trailingStart == TrailingStart(c, 0, Len(c))
    IN  <<SubSeq(c, 1, leadingEnd),
          SubSeq(c, leadingEnd + 1, trailingStart),
          SubSeq(c, trailingStart + 1, Len(c))>>

splitCellContent(c) ==
    LET leadingEnd    == LeadingEnd(c, 0)
        trailingStart == TrailingStart(c, leadingEnd, Len(c))
    IN  <<SubSeq(c, 1, leadingEnd),
          SubSeq(c, leadingEnd + 1, trailingStart),
          SubSeq(c, trailingStart + 1, Len(c))>>

\* Mutant: one trailing character leaves for each filler unit, not two.
compensateRegularCell_RemovesHalf(c, comp) ==
    LET parts          == splitCellContent(c)
        trailingSpace  == parts[3]
        spacesToRemove == comp
    IN  IF Len(trailingSpace) >= spacesToRemove
        THEN parts[1] \o parts[2] \o Repeat(IDEOGRAPHIC_SPACE, comp)
             \o SubSeq(trailingSpace, spacesToRemove + 1, Len(trailingSpace))
        ELSE c

\* Mutant: the second test is strict, so a cell with exactly comp trailing
\* characters is skipped.
compensateRegularCell_StrictRoom(c, comp) ==
    LET parts          == splitCellContent(c)
        trailingSpace  == parts[3]
        spacesToRemove == comp * 2
    IN  IF Len(trailingSpace) >= spacesToRemove
        THEN parts[1] \o parts[2] \o Repeat(IDEOGRAPHIC_SPACE, comp)
             \o SubSeq(trailingSpace, spacesToRemove + 1, Len(trailingSpace))
        ELSE IF Len(trailingSpace) > comp
        THEN parts[1] \o parts[2] \o Repeat(IDEOGRAPHIC_SPACE, comp)
        ELSE c

compensateRegularCell(c, comp) ==
    LET parts          == splitCellContent(c)
        leadingSpace   == parts[1]
        inner          == parts[2]
        trailingSpace  == parts[3]
        spacesToRemove == comp * 2
    IN  IF Len(trailingSpace) >= spacesToRemove
        THEN leadingSpace \o inner \o Repeat(IDEOGRAPHIC_SPACE, comp)
             \o SubSeq(trailingSpace, spacesToRemove + 1, Len(trailingSpace))
        ELSE IF Len(trailingSpace) >= comp
        THEN leadingSpace \o inner \o Repeat(IDEOGRAPHIC_SPACE, comp)
        ELSE c

\* Mutant: the base is 2 in every column with glyphs, not min(2, max - 1).
calculateCompensation_BaseTwo(maxE, cellE) ==
    IF maxE = 0 THEN 0
    ELSE LET raw  == 2 + maxE - cellE
             comp == IF cellE = 0 /\ maxE > 2 THEN Min2(raw, maxE - 1) ELSE raw
         IN  Max2(0, comp)

\* Mutant: the cap at max - 1 applied to every cell.
calculateCompensation_CapAll(maxE, cellE) ==
    IF maxE = 0 THEN 0
    ELSE Max2(0, Min2(Min2(2, maxE - 1) + maxE - cellE, maxE - 1))

\* Mutant: the formula before the base offset, max - cell.
calculateCompensation_Difference(maxE, cellE) == Max2(0, maxE - cellE)

calculateCompensation(maxE, cellE) ==
    IF maxE = 0 THEN 0
    ELSE LET base == Min2(2, maxE - 1)
             raw  == base + maxE - cellE
             comp == IF cellE = 0 /\ maxE > 2 THEN Min2(raw, maxE - 1) ELSE raw
         IN  Max2(0, comp)

\* processCell, with maxE the value of maxEmojiPerCol[col] || 0.  processTable
\* does not call it: it repeats the logic with the skip-if-adequate check.
processCell(c, isSeparatorRow, maxE) ==
    LET comp == calculateCompensation(maxE, countEmoji(c))
    IN  IF comp <= 0 THEN c
        ELSE IF isSeparatorRow THEN c
        ELSE compensateRegularCell(c, comp)

\* Mutant: processTable hands the original cell to processCell, so that
\* filler units already present are neither counted nor normalised.
processTableCell_ViaProcessCell(originalCell, cleanedCell, isSeparatorRow, maxE) ==
    processCell(originalCell, isSeparatorRow, maxE)

\* Mutant: the separator cell is rewritten as the earlier
\* compensateSeparatorCell did, two dashes leaving for each filler unit, but
\* without the test that keeps the dashes when there are too few of them.
processTableCell_SeparatorRewritten(originalCell, cleanedCell, isSeparatorRow, maxE) ==
    LET existingCompensation == countIdeographicSpaces(originalCell)
        neededCompensation   == calculateCompensation(maxE, countEmoji(cleanedCell))
        dashes == {k \in 1..Len(cleanedCell) : cleanedCell[k] = "-"}
        kept   == {k \in 1..Len(cleanedCell) :
                      cleanedCell[k] = "-" =>
                          Cardinality({j \in dashes : j >= k}) > 2 * neededCompensation}
        Nth(n) == CHOOSE k \in kept : Cardinality({j \in kept : j <= k}) = n
    IN  IF neededCompensation <= 0 \/ existingCompensation >= neededCompensation
        THEN originalCell
        ELSE IF isSeparatorRow
        THEN [n \in 1..Cardinality(kept) |-> cleanedCell[Nth(n)]]
             \o Repeat(IDEOGRAPHIC_SPACE, neededCompensation)
        ELSE compensateRegularCell(cleanedCell, neededCompensation)

\* Mutant: a cell that needs nothing more is returned normalised, not as read.
processTableCell_CleanedWhenAdequate(originalCell, cleanedCell, isSeparatorRow, maxE) ==
    LET existingCompensation == countIdeographicSpaces(originalCell)
        neededCompensation   == calculateCompensation(maxE, countEmoji(cleanedCell))
    IN  IF neededCompensation <= 0 \/ existingCompensation >= neededCompensation
        THEN cleanedCell
        ELSE IF isSeparatorRow
        THEN cleanedCell
        ELSE compensateRegularCell(cleanedCell, neededCompensation)

\* The callback of originalRow.map in processTable, for one cell.
processTableCell(originalCell, cleanedCell, isSeparatorRow, maxE) ==
    LET existingCompensation == countIdeographicSpaces(originalCell)
        cellE                == countEmoji(cleanedCell)
        neededCompensation   == calculateCompensation(maxE, cellE)
    IN  IF neededCompensation <= 0 \/ existingCompensation >= neededCompensation
        THEN originalCell
        ELSE IF isSeparatorRow THEN cleanedCell
        ELSE compensateRegularCell(cleanedCell, neededCompensation)

MapRows(rows, Op(_)) == [r \in 1..Len(rows) |-> Op(rows[r])]

\* Mutant: every row is walked over the columns of the widest row.
mappedCols_AllColumns(originalRow, numCols) == 1..numCols

\* originalRow.map((originalCell, col) => ...) visits the cells the row has.
mappedCols(originalRow, numCols) == 1..Len(originalRow)

hasEmoji(rows) == \E r \in 1..Len(rows) : countEmoji(rows[r]) > 0

MaxLen(parsedRows) ==
    CHOOSE n \in {Len(parsedRows[r]) : r \in 1..Len(parsedRows)} :
        \A r \in 1..Len(parsedRows) : Len(parsedRows[r]) <= n

\* What can throw inside processTable: new Array(numCols) when numCols is
\* not a length (Math.max() of no rows is -Infinity), and countEmoji of
\* cleanedRow[col] when the cleaned row has no cell at col (undefined.match).
processTableThrows(tableRows) ==
    LET originalParsedRows == MapRows(tableRows, parseTableRow)
        cleanedRows        == MapRows(tableRows, normalizeIdeographicSpaces)
        cleanedParsedRows  == MapRows(cleanedRows, parseTableRow)
    IN  /\ ~(~hasEmoji(cleanedRows) \/ Len(cleanedParsedRows) < 2)
        /\ \/ Len(cleanedParsedRows) = 0
           \/ \E r \in 1..Len(tableRows) :
                  \E col \in mappedCols(originalParsedRows[r], MaxLen(cleanedParsedRows)) :
                      col > Len(cleanedParsedRows[r])

processTable(tableRows) ==
    LET originalParsedRows == MapRows(tableRows, parseTableRow)
        cleanedRows        == MapRows(tableRows, normalizeIdeographicSpaces)
        cleanedParsedRows  == MapRows(cleanedRows, parseTableRow)
    IN  IF ~hasEmoji(cleanedRows) \/ Len(cleanedParsedRows) < 2
        THEN cleanedRows
        ELSE LET numCols        == MaxLen(cleanedParsedRows)
                 maxEmojiPerCol == calculateMaxEmojiPerColumn(cleanedParsedRows, numCols)
             IN  [rowIdx \in 1..Len(originalParsedRows) |->
                    buildTableRow(
                      [col \in mappedCols(originalParsedRows[rowIdx], numCols) |->
                         processTableCell(originalParsedRows[rowIdx][col],
                                          cleanedParsedRows[rowIdx][col],
                                          rowIdx = 2,
                                          maxEmojiPerCol[col])])]

\* Mutant: the filler units are deleted, not replaced by two spaces each.
cleanTable_Strip(tableRows) == MapRows(tableRows, stripIdeographicSpaces)

cleanTable(tableRows) == MapRows(tableRows, normalizeIdeographicSpaces)

-----------------------------------------------------------------------------
(* Code fences *)

\* Mutant: the tilde fence is forgotten.
isCodeFenceStart_BackticksOnly(line) == StartsWith(Trim(line), Str("!!!"))

isCodeFenceStart(line) ==
    LET trimmed == Trim(line)
    IN  StartsWith(trimmed, Str("!!!")) \/ StartsWith(trimmed, Str("~~~"))

isCodeFenceEnd(line, fence) ==
    LET trimmed == Trim(line)
    IN  trimmed = fence \/ StartsWith(trimmed, fence)

\* match[1] of the fence pattern (three or more backticks, or three or more
\* tildes, at the start): the whole leading run of the fence character.
RECURSIVE RunLength(_, _, _)
RunLength(s, c, k) ==
    IF k < Len(s) /\ s[k + 1] = c THEN RunLength(s, c, k + 1) ELSE k

FenceMatch_ThreeOnly(trimmed) == SubSeq(trimmed, 1, 3)

FenceMatch(trimmed) == SubSeq(trimmed, 1, RunLength(trimmed, trimmed[1], 0))

handleCodeFence(line, inBlock, fence) ==
    IF ~inBlock /\ isCodeFenceStart(line)
    THEN [inCodeBlock |-> TRUE, codeFence |-> FenceMatch(Trim(line))]
    ELSE IF inBlock /\ isCodeFenceEnd(line, fence)
    THEN [inCodeBlock |-> FALSE, codeFence |-> <<>>]
    ELSE [inCodeBlock |-> inBlock, codeFence |-> fence]

tableProcessor(mode, tableRows) ==
    IF mode = FIX THEN processTable(tableRows) ELSE cleanTable(tableRows)

tableProcessorThrows(mode, tableRows) ==
    mode = FIX /\ processTableThrows(tableRows)

\* while (i < lines.length && isTableRow(lines[i])) { tableRows.push(lines[i]); i++ }
RowRun_ToEnd(ls, k) == Len(ls) - k

RECURSIVE RowRun(_, _)
RowRun(ls, k) ==
    IF k < Len(ls) /\ isTableRow(ls[k + 1]) THEN 1 + RowRun(ls, k + 1) ELSE 0

-----------------------------------------------------------------------------
(* Bounds and inputs *)

MaxLines == 4       \* lines of a free-form document
MaxDataRows == 2    \* data rows of a generated table
MaxStall == 1       \* loop iterations followed beyond one per line
MaxCellLen == 4     \* characters of a cell given to compensateRegularCell
MaxComp == 3        \* compensation given to compensateRegularCell
MaxCount == 5       \* glyph counts given to calculateCompensation

SeqsUpTo(S, n) == UNION {[1..m -> S] : m \in 0..n}

\* Lines of the free-form documents: a backtick fence, a tilde fence, a line
\* with a pipe and a filler unit that is no table row, a separator, a header
\* with trailing room, a glyph row, an indented row holding a filler unit.
LinePool ==
    {Str("!!!"), Str("~~~"), Str("aF|a"), Str("|-|"), Str("|a  |"), Str("|E|"),
     Str(" |aF|")}

\* Rows of the generated tables: one to three cells, zero to three glyphs,
\* trailing room of every size, filler units present, short or in excess,
\* indentation, the one-character row.
RowPool ==
    {Str("|a  |a    |"), Str("|E|EE |"), Str("|E a |"), Str(" |aF| F|"),
     Str("|EEE  |a|E |"), Str("|a |  |"), Str("|"), Str("|a F  |aFFF|")}

SepPool == {Str("|--|--|"), Str(" |:-F| - |")}

FreeDocs == {JoinWith(ls, NL) : ls \in SeqsUpTo(LinePool, MaxLines)}

TableDocs ==
    {JoinWith(<<h, s>> \o d, NL) :
        h \in RowPool, s \in SepPool, d \in SeqsUpTo(RowPool, MaxDataRows)}

Plans == {<<FIX, FIX>>, <<CLEAN>>}

CellAlphabet == {SP, IDEOGRAPHIC_SPACE, "a", "E"}

MaxTextLen == 2     \* characters of a text given to countEmoji
MaxSepLen == 4      \* characters of a line given to isTableSeparatorLine

\* every character of the model but the line feed
TextAlphabet == {e[1] : e \in CodePoints} \ {NL}

LineAlphabet == {PIPE, "-", ":", SP, IDEOGRAPHIC_SPACE, "a"}

-----------------------------------------------------------------------------
(* traverseMarkdownTables, one action per kind of loop iteration *)

NoRun == /\ args = <<>> /\ cleanMode = FALSE /\ files = <<>> /\ fileIdx = 0
         /\ processedCount = 0 /\ disk = <<>> /\ warned = <<>> /\ calls = <<>>

NoCall == /\ argCell = <<>> /\ argComp = 0 /\ argMax = 0 /\ argCount = 0
          /\ argStr = <<>> /\ ret = <<>>

Init ==
    /\ content \in FreeDocs \cup TableDocs
    /\ plan \in Plans
    /\ lines = SplitOn(content, NL)
    /\ result = <<>>
    /\ i = 0
    /\ inCodeBlock = FALSE
    /\ codeFence = <<>>
    /\ pc = "scan"
    /\ output = <<>>
    /\ iters = 0
    /\ blocks = <<>>
    /\ outs = <<>>
    /\ first = content
    /\ NoCall
    /\ NoRun

callVars == <<argCell, argComp, argMax, argCount, argStr, ret>>

runVars == <<args, cleanMode, files, fileIdx, processedCount, disk, warned, calls>>

InLoop == pc = "scan" /\ i < Len(lines) /\ iters < Len(lines) + MaxStall

\* the state handleCodeFence returns for the current line
FenceNow == handleCodeFence(lines[i + 1], inCodeBlock, codeFence)

\* if (inCodeBlock || prevInCodeBlock) { result.push(line); i++; continue; }
FenceLine ==
    /\ InLoop
    /\ FenceNow.inCodeBlock \/ inCodeBlock
    /\ inCodeBlock' = FenceNow.inCodeBlock
    /\ codeFence' = FenceNow.codeFence
    /\ result' = Append(result, lines[i + 1])
    /\ i' = i + 1
    /\ iters' = iters + 1
    /\ UNCHANGED <<content, plan, lines, pc, output, blocks, outs, first>>
    /\ UNCHANGED callVars
    /\ UNCHANGED runVars

TableStart ==
    /\ Includes(lines[i + 1], PIPE)
    /\ i + 1 < Len(lines)
    /\ isTableSeparatorLine(lines[i + 2])

\* the table branch: collect the run of table rows, push the processed rows
TableBlock ==
    /\ InLoop
    /\ ~(FenceNow.inCodeBlock \/ inCodeBlock)
    /\ TableStart
    /\ inCodeBlock' = FenceNow.inCodeBlock
    /\ codeFence' = FenceNow.codeFence
    /\ iters' = iters + 1
    /\ LET n         == RowRun(lines, i)
           tableRows == SubSeq(lines, i + 1, i + n)
       IN  IF tableProcessorThrows(Head(plan), tableRows)
           THEN /\ pc' = "raised"
                /\ UNCHANGED <<result, i, blocks>>
           ELSE /\ pc' = pc
                /\ i' = i + n
                /\ result' = result \o tableProcessor(Head(plan), tableRows)
                /\ blocks' = Append(blocks,
                                    [at   |-> i,
                                     rows |-> tableRows,
                                     out  |-> tableProcessor(Head(plan), tableRows)])
    /\ UNCHANGED <<content, plan, lines, output, outs, first>>
    /\ UNCHANGED callVars
    /\ UNCHANGED runVars

\* else { result.push(line); i++; }
PlainLine ==
    /\ InLoop
    /\ ~(FenceNow.inCodeBlock \/ inCodeBlock)
    /\ ~TableStart
    /\ inCodeBlock' = FenceNow.inCodeBlock
    /\ codeFence' = FenceNow.codeFence
    /\ result' = Append(result, lines[i + 1])
    /\ i' = i + 1
    /\ iters' = iters + 1
    /\ UNCHANGED <<content, plan, lines, pc, output, blocks, outs, first>>
    /\ UNCHANGED callVars
    /\ UNCHANGED runVars

\* return result.join("\n")
Return ==
    /\ pc = "scan"
    /\ ~(i < Len(lines))
    /\ output' = JoinWith(result, NL)
    /\ pc' = "done"
    /\ UNCHANGED <<content, plan, lines, result, i, inCodeBlock, codeFence, iters,
                   blocks, outs, first>>
    /\ UNCHANGED callVars
    /\ UNCHANGED runVars

\* the caller hands the returned string to the next function of its plan
NextPass ==
    /\ pc = "done"
    /\ Len(plan) > 1
    /\ plan' = Tail(plan)
    /\ content' = output
    /\ lines' = SplitOn(output, NL)
    /\ outs' = Append(outs, output)
    /\ result' = <<>>
    /\ i' = 0
    /\ inCodeBlock' = FALSE
    /\ codeFence' = <<>>
    /\ pc' = "scan"
    /\ output' = <<>>
    /\ iters' = 0
    /\ blocks' = <<>>
    /\ UNCHANGED first
    /\ UNCHANGED callVars
    /\ UNCHANGED runVars

Next == FenceLine \/ TableBlock \/ PlainLine \/ Return \/ NextPass

Spec == Init /\ [][Next]_vars

-----------------------------------------------------------------------------
(* fixTableAlignment, cleanTableAlignment and fixTableAlignment again, on    *)
(* the generated tables and on documents with fences of several kinds       *)

\* a tilde fence, the same marker followed by text, a longer backtick fence,
\* an indented row holding a filler unit, a separator, a glyph row with room
FencePool ==
    {Str("~~~"), Str("~~~a"), Str("!!!!"), Str("!!!"), Str(" |aF|"), Str("|-|"),
     Str("|EE  |")}

FenceDocs == {JoinWith(ls, NL) : ls \in SeqsUpTo(FencePool, MaxLines)}

InitRoundTrip ==
    /\ content \in FenceDocs \cup TableDocs
    /\ plan = <<FIX, CLEAN, FIX>>
    /\ lines = SplitOn(content, NL)
    /\ result = <<>>
    /\ i = 0
    /\ inCodeBlock = FALSE
    /\ codeFence = <<>>
    /\ pc = "scan"
    /\ output = <<>>
    /\ iters = 0
    /\ blocks = <<>>
    /\ outs = <<>>
    /\ first = content
    /\ NoCall
    /\ NoRun

SpecRoundTrip == InitRoundTrip /\ [][Next]_vars

-----------------------------------------------------------------------------
(* The pure functions applied to bounded inputs *)

scanVars == <<content, plan, lines, result, i, inCodeBlock, codeFence, output,
              iters, blocks, outs, first>>

InitPure ==
    /\ content = <<>> /\ plan = <<>> /\ lines = <<>> /\ result = <<>> /\ i = 0
    /\ inCodeBlock = FALSE /\ codeFence = <<>> /\ output = <<>> /\ iters = 0
    /\ blocks = <<>> /\ outs = <<>> /\ first = <<>>
    /\ NoRun
    /\ ret = <<>> /\ argStr = <<>>
    /\ \/ /\ pc = "callCell"
          /\ argCell \in SeqsUpTo(CellAlphabet, MaxCellLen)
          /\ argComp \in 1..MaxComp
          /\ argMax = 0 /\ argCount = 0
       \/ /\ pc = "callCalc"
          /\ argMax \in 0..MaxCount
          /\ argCount \in 0..MaxCount
          /\ argCell = <<>> /\ argComp = 0
       \/ /\ pc = "callSplit"
          /\ argCell \in SeqsUpTo(CellAlphabet, MaxCellLen)
          /\ argComp = 0 /\ argMax = 0 /\ argCount = 0

CallCompensateRegularCell ==
    /\ pc = "callCell"
    /\ ret' = <<compensateRegularCell(argCell, argComp)>>
    /\ pc' = "returnedCell"
    /\ UNCHANGED <<argCell, argComp, argMax, argCount, argStr>>
    /\ UNCHANGED scanVars
    /\ UNCHANGED runVars

CallCalculateCompensation ==
    /\ pc = "callCalc"
    /\ ret' = <<calculateCompensation(argMax, argCount)>>
    /\ pc' = "returnedCalc"
    /\ UNCHANGED <<argCell, argComp, argMax, argCount, argStr>>
    /\ UNCHANGED scanVars
    /\ UNCHANGED runVars

CallSplitCellContent ==
    /\ pc = "callSplit"
    /\ ret' = <<splitCellContent(argCell)>>
    /\ pc' = "returnedSplit"
    /\ UNCHANGED <<argCell, argComp, argMax, argCount, argStr>>
    /\ UNCHANGED scanVars
    /\ UNCHANGED runVars

NextPure ==
    CallCompensateRegularCell \/ CallCalculateCompensation \/ CallSplitCellContent

SpecPure == InitPure /\ [][NextPure]_vars

-----------------------------------------------------------------------------
(* The functions of one string applied to bounded inputs *)

InitText ==
    /\ content = <<>> /\ plan = <<>> /\ lines = <<>> /\ result = <<>> /\ i = 0
    /\ inCodeBlock = FALSE /\ codeFence = <<>> /\ output = <<>> /\ iters = 0
    /\ blocks = <<>> /\ outs = <<>> /\ first = <<>>
    /\ NoRun
    /\ ret = <<>>
    /\ argCell = <<>> /\ argComp = 0 /\ argMax = 0 /\ argCount = 0
    /\ \/ /\ pc = "callCount"
          /\ argStr \in SeqsUpTo(TextAlphabet, MaxTextLen)
       \/ /\ pc = "callSep"
          /\ argStr \in SeqsUpTo(LineAlphabet, MaxSepLen)

CallCountEmoji ==
    /\ pc = "callCount"
    /\ ret' = <<countEmoji(argStr)>>
    /\ pc' = "returnedCount"
    /\ UNCHANGED <<argCell, argComp, argMax, argCount, argStr>>
    /\ UNCHANGED scanVars
    /\ UNCHANGED runVars

CallIsTableSeparatorLine ==
    /\ pc = "callSep"
    /\ ret' = <<isTableSeparatorLine(argStr)>>
    /\ pc' = "returnedSep"
    /\ UNCHANGED <<argCell, argComp, argMax, argCount, argStr>>
    /\ UNCHANGED scanVars
    /\ UNCHANGED runVars

NextText == CallCountEmoji \/ CallIsTableSeparatorLine

SpecText == InitText /\ [][NextText]_vars

-----------------------------------------------------------------------------
(* Two passes of one function on documents of two tables: a table, a gap,   *)
(* a table, each table a header, a separator and one data row               *)

\* Rows: two cells without glyph and with room, a cell of three glyphs with
\* room beside a cell of one, a cell of one glyph with room, a cell of two
\* glyphs with room, a cell that holds a filler unit.
BlockRows ==
    {Str("|a      |a  |"), Str("|EEE    |E|"), Str("|E  |"), Str("|EE  |"),
     Str("|aF|")}

BlockTables == {<<h, Str("|-|"), d>> : h \in BlockRows, d \in BlockRows}

\* The first table also with an indented separator that holds filler units.
FirstTables ==
    {<<h, s, d>> : h \in BlockRows, s \in {Str("|-|"), Str(" |-FF|")}, d \in BlockRows}

\* Between the tables: a line of text, an empty line, a fence opener, nothing.
Gaps == {<<Str("a")>>, <<Str("")>>, <<Str("~~~")>>, <<>>}

BlockDocs == {JoinWith(t \o g \o u, NL) : t \in FirstTables, g \in Gaps, u \in BlockTables}

InitBlocks ==
    /\ content \in BlockDocs
    /\ plan \in {<<FIX, FIX>>, <<CLEAN, CLEAN>>}
    /\ lines = SplitOn(content, NL)
    /\ result = <<>>
    /\ i = 0
    /\ inCodeBlock = FALSE
    /\ codeFence = <<>>
    /\ pc = "scan"
    /\ output = <<>>
    /\ iters = 0
    /\ blocks = <<>>
    /\ outs = <<>>
    /\ first = content
    /\ NoCall
    /\ NoRun

SpecBlocks == InitBlocks /\ [][Next]_vars

-----------------------------------------------------------------------------
(* The command line: run, processFile and the default file list, on a      *)
(* small file system.  A file name is a text, a path the sequence of the   *)
(* names from the working directory down.                                   *)

MARKDOWN_EXTENSIONS == <<Str(".md"), Str(".mdx")>>

EndsWith(s, p) == Len(s) >= Len(p) /\ SubSeq(s, Len(s) - Len(p) + 1, Len(s)) = p

isMarkdownFile(filename) ==
    \E e \in 1..Len(MARKDOWN_EXTENSIONS) : EndsWith(filename, MARKDOWN_EXTENSIONS[e])

\* traverseMarkdownTables as a function of the text: the string it returns,
\* the exception of the table processor, or the loop that never advances
\* (a table start whose run of table rows is empty leaves i where it was).
RECURSIVE TraverseFrom(_, _, _, _, _, _)
TraverseFrom(ls, k, inBlock, fence, res, mode) ==
    IF ~(k < Len(ls))
    THEN [status |-> "returns", text |-> JoinWith(res, NL)]
    ELSE LET now == handleCodeFence(ls[k + 1], inBlock, fence)
         IN  IF now.inCodeBlock \/ inBlock
             THEN TraverseFrom(ls, k + 1, now.inCodeBlock, now.codeFence,
                               Append(res, ls[k + 1]), mode)
             ELSE IF /\ Includes(ls[k + 1], PIPE)
                     /\ k + 1 < Len(ls)
                     /\ isTableSeparatorLine(ls[k + 2])
                  THEN LET n         == RowRun(ls, k)
                           tableRows == SubSeq(ls, k + 1, k + n)
                       IN  IF tableProcessorThrows(mode, tableRows)
                           THEN [status |-> "throws", text |-> <<>>]
                           ELSE IF n = 0
                                THEN [status |-> "hangs", text |-> <<>>]
                                ELSE TraverseFrom(ls, k + n, now.inCodeBlock,
                                                  now.codeFence,
                                                  res \o tableProcessor(mode, tableRows),
                                                  mode)
                  ELSE TraverseFrom(ls, k + 1, now.inCodeBlock, now.codeFence,
                                    Append(res, ls[k + 1]), mode)

traverseMarkdownTables(text, mode) ==
    TraverseFrom(SplitOn(text, NL), 0, FALSE, <<>>, <<>>, mode)

fixTableAlignment(text) == traverseMarkdownTables(text, FIX)

cleanTableAlignment(text) == traverseMarkdownTables(text, CLEAN)

\* The names each directory can hold, in the order readdirSync lists them.
Children(dir) ==
    CASE dir = <<>>                          -> <<Str("a.md"), Str("n.txt"), Str("docs")>>
      [] dir = <<Str("docs")>>               -> <<Str("d.mdx"), Str(".h"),
                                                  Str("node_modules"), Str("s")>>
      [] dir = <<Str("docs"), Str(".h")>>    -> <<Str("h.md")>>
      [] dir = <<Str("docs"), Str("node_modules")>> -> <<Str("m.md")>>
      [] dir = <<Str("docs"), Str("s")>>     -> <<Str("e.md")>>
      [] OTHER                               -> <<>>

Dirs == {<<>>, <<Str("docs")>>, <<Str("docs"), Str(".h")>>,
         <<Str("docs"), Str("node_modules")>>, <<Str("docs"), Str("s")>>}

Paths == Dirs \cup UNION {{Append(d, Children(d)[k]) : k \in 1..Len(Children(d))} : d \in Dirs}

\* fs.readFileSync(filePath, "utf8") throws: no file at the path, or a file
\* that cannot be read
readFileSyncThrows(d, filePath) ==
    d[filePath].kind # "file" \/ d[filePath].fault = "read"

\* fs.readdirSync(dir, { withFileTypes: true }) throws
readdirSyncThrows(d, dir) ==
    d[dir].kind # "dir" \/ d[dir].fault = "read"

\* the names readdirSync lists: those of the entries that exist
readdirSync(d, dir) ==
    SelectSeq(Children(dir), LAMBDA name : d[Append(dir, name)].kind # "none")

existsSync(d, p) == d[p].kind # "none"

\* findMarkdownFiles(dir, files) and its loop over the entries of dir
RECURSIVE findMarkdownFiles(_, _, _)
RECURSIVE FindInEntries(_, _, _, _)
findMarkdownFiles(d, dir, found) ==
    IF readdirSyncThrows(d, dir)
    THEN found
    ELSE FindInEntries(d, dir, readdirSync(d, dir), found)

FindInEntries(d, dir, entries, found) ==
    IF entries = <<>>
    THEN found
    ELSE LET name     == Head(entries)
             fullPath == Append(dir, name)
         IN  IF /\ d[fullPath].kind = "dir"
                /\ ~StartsWith(name, Str("."))
                /\ name # Str("node_modules")
             THEN FindInEntries(d, dir, Tail(entries),
                                findMarkdownFiles(d, fullPath, found))
             ELSE IF d[fullPath].kind = "file" /\ isMarkdownFile(name)
                  THEN FindInEntries(d, dir, Tail(entries), Append(found, fullPath))
                  ELSE FindInEntries(d, dir, Tail(entries), found)

\* getDefaultFiles(cwd): the markdown files of cwd, then those below cwd/docs
getDefaultFiles(d, cwd) ==
    IF readdirSyncThrows(d, cwd)
    THEN <<>>
    ELSE LET rootFiles ==
                 SelectSeq(readdirSync(d, cwd),
                           LAMBDA name : /\ d[Append(cwd, name)].kind = "file"
                                         /\ isMarkdownFile(name))
             rootPaths == [k \in 1..Len(rootFiles) |-> Append(cwd, rootFiles[k])]
             docsDir   == Append(cwd, Str("docs"))
         IN  IF existsSync(d, docsDir)
             THEN findMarkdownFiles(d, docsDir, rootPaths)
             ELSE rootPaths

\* processFile(filePath, cleanMode) on the file system d: the outcomes it can
\* have, each with the value returned and the file system it leaves.  The
\* try block catches what readFileSync, the transformation and writeFileSync
\* throw.  writeFileSync opens the file with flag "w", which truncates it,
\* and then writes: it fails either at the open, with the file as it was
\* (fault "open"), or at a write, with the file holding what was written
\* until then (fault "write").
processFile(d, filePath, clean) ==
    IF readFileSyncThrows(d, filePath)
    THEN {[status |-> "returns", value |-> FALSE, disk |-> d]}
    ELSE LET data      == d[filePath].data
             processed == IF clean THEN cleanTableAlignment(data)
                                   ELSE fixTableAlignment(data)
         IN  CASE processed.status = "hangs" ->
                      {[status |-> "hangs", value |-> FALSE, disk |-> d]}
               [] processed.status = "throws" ->
                      {[status |-> "returns", value |-> FALSE, disk |-> d]}
               [] OTHER ->
                      IF data # processed.text
                      THEN CASE d[filePath].fault = "open" ->
                                    {[status |-> "returns", value |-> FALSE, disk |-> d]}
                             [] d[filePath].fault = "write" ->
                                    {[status |-> "returns", value |-> FALSE,
                                      disk |-> [d EXCEPT ![filePath].data =
                                                   SubSeq(processed.text, 1, n)]] :
                                     n \in 0..(Len(processed.text) - 1)}
                             [] OTHER ->
                                    {[status |-> "returns", value |-> TRUE,
                                      disk |-> [d EXCEPT ![filePath].data =
                                                   processed.text]]}
                      ELSE {[status |-> "returns", value |-> FALSE, disk |-> d]}

MaxArgs == 2        \* arguments of run

\* Arguments: the known flag, an unknown flag, a markdown file of the working
\* directory, a file that is no markdown file, a directory.
ArgPool == {Str("--clean"), Str("--x"), Str("a.md"), Str("n.txt"), Str("docs")}

\* Contents: a table that needs a filler unit, the same table holding it, a
\* text without a table, a pipe line before a separator that is no table row.
NeedsFix == JoinWith(<<Str("|a  |"), Str("|-|"), Str("|E|")>>, NL)
Filled   == JoinWith(<<Str("|aF|"), Str("|-|"), Str("|E|")>>, NL)
NoTable  == Str("a")
Stalls   == JoinWith(<<Str("a|"), Str("|-|")>>, NL)

File(data, fault) == [kind |-> "file", data |-> data, fault |-> fault]
Dir(fault) == [kind |-> "dir", data |-> <<>>, fault |-> fault]
Missing == [kind |-> "none", data |-> <<>>, fault |-> "none"]

\* The states of a.md, of docs/d.mdx, of docs, of docs/s and of the working
\* directory; every other file holds a table that needs a filler unit.
Disks ==
    {[p \in Paths |->
        CASE p = <<Str("a.md")>>                -> fa
          [] p = <<Str("docs"), Str("d.mdx")>>  -> fd
          [] p = <<Str("docs")>>                -> dd
          [] p = <<Str("docs"), Str("s")>>      -> ds
          [] p = <<>>                           -> dr
          [] p = <<Str("docs"), Str(".h")>>     -> Dir("none")
          [] p = <<Str("docs"), Str("node_modules")>> -> Dir("none")
          [] OTHER                              -> File(NeedsFix, "none")] :
     fa \in {Missing, File(NoTable, "none"), File(Stalls, "none"),
             File(Filled, "none"), File(Filled, "write")}
            \cup {File(NeedsFix, f) : f \in {"none", "read", "open", "write"}},
     fd \in {File(Filled, "none"), File(NeedsFix, "open")},
     dd \in {Dir("none"), Missing},
     ds \in {Dir("none"), Dir("read")},
     dr \in {Dir("none"), Dir("read")}}

InitFiles ==
    /\ content = <<>> /\ plan = <<>> /\ lines = <<>> /\ result = <<>> /\ i = 0
    /\ inCodeBlock = FALSE /\ codeFence = <<>> /\ output = <<>> /\ iters = 0
    /\ blocks = <<>> /\ outs = <<>> /\ first = <<>>
    /\ NoCall
    /\ pc = "run"
    /\ args \in SeqsUpTo(ArgPool, MaxArgs)
    /\ disk \in Disks
    /\ cleanMode = FALSE /\ files = <<>> /\ fileIdx = 0 /\ processedCount = 0
    /\ warned = <<>> /\ calls = <<>>

\* run, up to the for loop: the flags, the warning, the list of files
RunStart ==
    /\ pc = "run"
    /\ LET flags        == SelectSeq(args, LAMBDA arg : StartsWith(arg, Str("--")))
           unknownFlags == SelectSeq(flags, LAMBDA flag : flag # Str("--clean"))
           fileArgs     == SelectSeq(args, LAMBDA arg : ~StartsWith(arg, Str("--")))
       IN  /\ cleanMode' = (\E k \in 1..Len(args) : args[k] = Str("--clean"))
           /\ warned' = IF Len(unknownFlags) > 0 THEN <<unknownFlags>> ELSE <<>>
           /\ files' = IF Len(fileArgs) > 0
                       THEN [k \in 1..Len(fileArgs) |-> <<fileArgs[k]>>]
                       ELSE getDefaultFiles(disk, <<>>)
    /\ fileIdx' = 0
    /\ processedCount' = 0
    /\ pc' = "loop"
    /\ UNCHANGED <<args, disk, calls>>
    /\ UNCHANGED scanVars
    /\ UNCHANGED callVars

\* for (const file of files) { if (processFile(file, cleanMode)) processedCount++; }
ProcessFile ==
    /\ pc = "loop"
    /\ fileIdx < Len(files)
    /\ \E o \in processFile(disk, files[fileIdx + 1], cleanMode) :
          /\ disk' = o.disk
          /\ calls' = Append(calls, [filePath  |-> files[fileIdx + 1],
                                     cleanMode |-> cleanMode,
                                     before    |-> disk,
                                     status    |-> o.status,
                                     value     |-> o.value,
                                     after     |-> o.disk])
          /\ IF o.status = "hangs"
             THEN /\ pc' = "hung"
                  /\ UNCHANGED <<fileIdx, processedCount>>
             ELSE /\ pc' = pc
                  /\ fileIdx' = fileIdx + 1
                  /\ processedCount' = IF o.value THEN processedCount + 1
                                                  ELSE processedCount
    /\ UNCHANGED <<args, cleanMode, files, warned>>
    /\ UNCHANGED scanVars
    /\ UNCHANGED callVars

\* return processedCount
RunReturn ==
    /\ pc = "loop"
    /\ ~(fileIdx < Len(files))
    /\ ret' = <<processedCount>>
    /\ pc' = "runDone"
    /\ UNCHANGED <<argCell, argComp, argMax, argCount, argStr>>
    /\ UNCHANGED scanVars
    /\ UNCHANGED runVars

NextFiles == RunStart \/ ProcessFile \/ RunReturn

SpecFiles == InitFiles /\ [][NextFiles]_vars

-----------------------------------------------------------------------------
(* Vocabulary of the properties, written from their wording and not from  *)
(* the functions above                                                     *)

Glyphs(str) == Cardinality({k \in 1..Len(str) : str[k] = "E"})
Fillers(str) == Cardinality({k \in 1..Len(str) : str[k] = "F"})
Blank(c) == c \in {" ", "F"}
Pipes(str) == Cardinality({k \in 1..Len(str) : str[k] = "|"})

\* the line without the blanks around it
Core(line) ==
    LET idx == {k \in 1..Len(line) : ~Blank(line[k])}
    IN  IF idx = {} THEN <<>>
        ELSE LET lo == CHOOSE k \in idx : \A j \in idx : k <= j
                 hi == CHOOSE k \in idx : \A j \in idx : j <= k
             IN  SubSeq(line, lo, hi)

Prefix(p, str) == Len(p) <= Len(str) /\ \A k \in 1..Len(p) : str[k] = p[k]

\* the leading run of three or more backticks or of three or more tildes
\* that makes a line a fence opener, <<>> for any other line
OpeningMarker(line) ==
    LET t == Core(line)
    IN  IF Len(t) >= 3 /\ t[1] \in {"!", "~"} /\ t[2] = t[1] /\ t[3] = t[1]
        THEN SubSeq(t, 1, CHOOSE n \in 3..Len(t) :
                              /\ \A j \in 1..n : t[j] = t[1]
                              /\ n = Len(t) \/ t[n + 1] # t[1])
        ELSE <<>>

\* a row: first and last visible characters are pipes
RowShape(line) ==
    LET t == Core(line) IN t # <<>> /\ t[1] = "|" /\ t[Len(t)] = "|"

\* a separator line as the scanner accepts it: a row of at least three
\* characters with nothing but blanks, colons, pipes and dashes inside
SeparatorShape(line) ==
    LET t == Core(line)
    IN  /\ RowShape(line)
        /\ Len(t) >= 3
        /\ \A k \in 1..Len(t) : t[k] \in {" ", "F", ":", "|", "-"}

\* the lines of ls, by number from 1, from a fence opener to its closing
\* line (the next line whose trimmed text starts with the opener's marker),
\* both included; marker is <<>> while no fence is open
RECURSIVE FencedFrom(_, _, _)
FencedFrom(ls, k, marker) ==
    IF k > Len(ls) THEN {}
    ELSE IF marker = <<>>
    THEN IF OpeningMarker(ls[k]) # <<>>
         THEN {k} \cup FencedFrom(ls, k + 1, OpeningMarker(ls[k]))
         ELSE FencedFrom(ls, k + 1, <<>>)
    ELSE {k} \cup FencedFrom(ls, k + 1,
                             IF Prefix(marker, Core(ls[k])) THEN <<>> ELSE marker)

Fenced(ls) == FencedFrom(ls, 1, <<>>)

\* the number of rows in the run of consecutive rows that starts at line k
RECURSIVE RowsFrom(_, _)
RowsFrom(ls, k) ==
    IF k <= Len(ls) /\ RowShape(ls[k]) THEN 1 + RowsFrom(ls, k + 1) ELSE 0

\* the lines of the table blocks: outside the fences, a line with a pipe that
\* a separator line follows, and the run of rows after it
RECURSIVE BlockLinesFrom(_, _)
BlockLinesFrom(ls, k) ==
    IF k > Len(ls) THEN {}
    ELSE IF k \in Fenced(ls) THEN BlockLinesFrom(ls, k + 1)
    ELSE IF Pipes(ls[k]) > 0 /\ k < Len(ls) /\ SeparatorShape(ls[k + 1])
    THEN LET n == RowsFrom(ls, k + 1)
         IN  (k..(k + n)) \cup BlockLinesFrom(ls, k + n + 1)
    ELSE BlockLinesFrom(ls, k + 1)

BlockLines(ls) == BlockLinesFrom(ls, 1)

Fixing == plan # <<>> /\ Head(plan) = FIX
Cleaning == plan # <<>> /\ Head(plan) = CLEAN
Scanned == pc \in {"scan", "done"}
Returned == pc = "done"
OutLines == SplitOn(output, NL)

-----------------------------------------------------------------------------
(* C1 *)

\* C1: fixTableAlignment is idempotent: when the second of two successive
\* fixTableAlignment passes returns, it returns the text the first returned.
C1_Idempotent ==
    (Returned /\ plan = <<FIX>> /\ Len(outs) = 1) => output = outs[1]

\* the second pass has returned on the output of a first pass that was given
\* a table with filler units of its own and wrote more of them
C1_Witness ==
    /\ Returned /\ plan = <<FIX>> /\ Len(outs) = 1
    /\ Fillers(first) > 0
    /\ Fillers(outs[1]) > Fillers(first)
    /\ blocks # <<>>

-----------------------------------------------------------------------------
(* C2 *)

\* C2: fence opacity: every line from a fence-opening line to its closing
\* line, both included, is emitted by fixTableAlignment as it was read, in
\* result while the scan runs and in the returned text.
C2_FenceOpacity ==
    (Fixing /\ Scanned) =>
        \A k \in Fenced(lines) :
            /\ k <= Len(result) => result[k] = lines[k]
            /\ Returned => (k <= Len(OutLines) /\ OutLines[k] = lines[k])

\* fixTableAlignment has returned a text in which a fence holds a header, a
\* separator and a data row with a glyph, the header with room to compensate
C2_Witness ==
    /\ Fixing /\ Returned
    /\ \E k \in Fenced(lines) :
           /\ k + 2 \in Fenced(lines)
           /\ RowShape(lines[k]) /\ Fillers(lines[k]) = 0
           /\ lines[k] # <<PIPE>> \o Core(SubSeq(lines[k], 2, Len(lines[k]) - 1)) \o <<PIPE>>
           /\ SeparatorShape(lines[k + 1])
           /\ RowShape(lines[k + 2]) /\ Glyphs(lines[k + 2]) > 0

-----------------------------------------------------------------------------
(* C3 *)

\* C3: non-table passthrough: every line that belongs to no table block is
\* emitted by fixTableAlignment and by cleanTableAlignment as it was read and
\* at its own place, in result while the scan runs and in the returned text.
C3_NonTablePassthrough ==
    Scanned =>
        LET inBlocks == BlockLines(lines)
            emitted  == OutLines
        IN  /\ \A k \in 1..Len(result) :
                   k \notin inBlocks => result[k] = lines[k]
            /\ Returned =>
                   /\ Len(emitted) = Len(lines)
                   /\ \A k \in 1..Len(lines) :
                          k \notin inBlocks => emitted[k] = lines[k]

\* a pass has returned a text with a table block it changed and, outside the
\* blocks, a line holding a filler unit
C3_Witness ==
    /\ Returned
    /\ output # content
    /\ \E k \in 1..Len(lines) :
           k \notin BlockLines(lines) /\ Fillers(lines[k]) > 0
    /\ BlockLines(lines) # {}

-----------------------------------------------------------------------------
(* C4 *)

\* C4: the scan is a single pass: every iteration of the loop advances the
\* line index, so a pass makes at most as many iterations as the text has
\* lines.
C4_SinglePass == Scanned => (iters <= i /\ iters <= Len(lines))

-----------------------------------------------------------------------------
(* C5 *)

EmptyInput == lines = <<<<>>>>

UnterminatedFence ==
    /\ Len(lines) >= 1
    /\ OpeningMarker(lines[1]) # <<>>
    /\ \A k \in 2..Len(lines) : ~Prefix(OpeningMarker(lines[1]), Core(lines[k]))

CellCount(line) == IF Pipes(Core(line)) >= 2 THEN Pipes(Core(line)) - 1 ELSE 1

RaggedTable ==
    /\ Len(lines) >= 3
    /\ \A k \in 1..Len(lines) : RowShape(lines[k])
    /\ SeparatorShape(lines[2])
    /\ \E k \in 3..Len(lines) : CellCount(lines[k]) < CellCount(lines[1])
    /\ \E k \in 3..Len(lines) : CellCount(lines[k]) > CellCount(lines[1])

\* C5: fixTableAlignment and cleanTableAlignment never raise; on the empty
\* string, on a text whose first line opens a fence that is never closed and
\* on a table with rows shorter and longer than its header, every iteration
\* advances, so the pass returns.
C5_NeverRaises ==
    /\ pc # "raised"
    /\ (Scanned /\ (EmptyInput \/ UnterminatedFence \/ RaggedTable)) => iters <= i

\* fixTableAlignment has returned on a table with glyphs whose data rows are
\* shorter and longer than the header, and has changed it
C5_Witness ==
    /\ Returned /\ Fixing /\ RaggedTable
    /\ Glyphs(content) > 0
    /\ output # content

C5_WitnessEmpty == Returned /\ EmptyInput /\ output = <<>>

C5_WitnessFence == Returned /\ UnterminatedFence /\ Len(lines) > 1 /\ output = content

-----------------------------------------------------------------------------
(* C6 *)

GlyphFree(rows) == \A r \in 1..Len(rows) : Glyphs(rows[r]) = 0

\* t is str with every filler unit replaced by two ordinary spaces
Expanded(str, t) ==
    /\ Len(t) = Len(str) + Fillers(str)
    /\ \A k \in 1..Len(str) :
           LET q == k + Fillers(SubSeq(str, 1, k - 1))
           IN  IF str[k] = "F" THEN t[q] = " " /\ t[q + 1] = " " ELSE t[q] = str[k]

Emitted(b) == SubSeq(result, b.at + 1, b.at + Len(b.rows))

\* C6 as stated: a table without any glyph is returned byte-identical by
\* processTable and by fixTableAlignment, whatever else its cells contain.
C6_GlyphFreeIdentical ==
    (Fixing /\ Scanned) =>
        \A n \in 1..Len(blocks) :
            GlyphFree(blocks[n].rows) =>
                blocks[n].out = blocks[n].rows /\ Emitted(blocks[n]) = blocks[n].rows

\* C6 as amended: a table without any glyph is returned by processTable and
\* by fixTableAlignment with every filler unit replaced by two ordinary
\* spaces and nothing else changed, indentation included; it is returned
\* byte-identical when it holds no filler unit.
C6_GlyphFreeNormalized ==
    (Fixing /\ Scanned) =>
        \A n \in 1..Len(blocks) :
            LET b == blocks[n]
            IN  GlyphFree(b.rows) =>
                    /\ Len(b.out) = Len(b.rows)
                    /\ Emitted(b) = b.out
                    /\ \A r \in 1..Len(b.rows) :
                           /\ Expanded(b.rows[r], b.out[r])
                           /\ Fillers(b.rows[r]) = 0 => b.out[r] = b.rows[r]

\* fixTableAlignment has returned a table without glyphs that has an indented
\* row, a row with a filler unit and a row without
C6_Witness ==
    /\ Fixing /\ Returned
    /\ \E n \in 1..Len(blocks) :
           LET b == blocks[n]
           IN  /\ GlyphFree(b.rows)
               /\ Len(b.rows) >= 2
               /\ \E r \in 1..Len(b.rows) : Fillers(b.rows[r]) > 0
               /\ \E r \in 1..Len(b.rows) : Fillers(b.rows[r]) = 0
               /\ \E r \in 1..Len(b.rows) : b.rows[r] # Core(b.rows[r])

-----------------------------------------------------------------------------
(* C7 *)

\* the value C7 describes, case by case
StatedCompensation(columnMax, cellCount) ==
    CASE columnMax = 0 -> 0
      [] columnMax = 1 -> IF cellCount >= 1 THEN 0 ELSE 1
      [] columnMax = 2 -> IF cellCount >= 3 THEN 0 ELSE 3 - cellCount
      [] OTHER         -> IF cellCount = 0 THEN columnMax - 1
                          ELSE IF cellCount >= columnMax + 2 THEN 0
                          ELSE columnMax + 2 - cellCount

-----------------------------------------------------------------------------
(* C8 *)

\* the largest glyph count of a data-row cell at column c, 0 without one
DataMax(parsed, c) ==
    LET counts == {Glyphs(parsed[r][c]) :
                      r \in {q \in 3..Len(parsed) : c <= Len(parsed[q])}}
    IN  IF counts = {} THEN 0
        ELSE CHOOSE m \in counts : \A x \in counts : x <= m

ParsedClean(rows) == MapRows(MapRows(rows, normalizeIdeographicSpaces), parseTableRow)

GlyphsInHeaderOnly(rows) ==
    /\ Len(rows) >= 2
    /\ Glyphs(rows[1]) > 0
    /\ \A r \in 2..Len(rows) : Glyphs(rows[r]) = 0

\* C8: the per-column maximum processTable works with is, for every column,
\* the largest glyph count of a data-row cell of that column and 0 when no
\* data row has the column; and a table whose only glyphs are in its header
\* receives no filler unit in any cell.
C8_DataRowsOnly ==
    (Fixing /\ Scanned) =>
        \A n \in 1..Len(blocks) :
            LET b == blocks[n]
                P == ParsedClean(b.rows)
            IN  Len(b.rows) >= 2 =>
                    /\ calculateMaxEmojiPerColumn(P, MaxLen(P))
                           = [c \in 1..MaxLen(P) |-> DataMax(P, c)]
                    /\ GlyphsInHeaderOnly(b.rows) =>
                           \A r \in 1..Len(b.rows) :
                               LET before == parseTableRow(b.rows[r])
                                   after  == parseTableRow(b.out[r])
                               IN  /\ Len(after) = Len(before)
                                   /\ \A c \in 1..Len(before) :
                                          Fillers(after[c]) <= Fillers(before[c])

\* fixTableAlignment has returned a table in which a header cell holds more
\* glyphs than any data cell of its column, and a data row lacks a column
C8_Witness ==
    /\ Fixing /\ Returned
    /\ \E n \in 1..Len(blocks) :
           LET P == ParsedClean(blocks[n].rows)
           IN  /\ Len(P) >= 3
               /\ \E c \in 1..Len(P[1]) : Glyphs(P[1][c]) > DataMax(P, c) /\ DataMax(P, c) > 0
               /\ \E r \in 3..Len(P) : Len(P[r]) < MaxLen(P)

-----------------------------------------------------------------------------
(* C9 *)

\* lengths of the leading and of the trailing white space of a cell; a cell
\* of white space only is all leading
LeadLen(c) ==
    CHOOSE n \in 0..Len(c) :
        /\ \A k \in 1..n : Blank(c[k])
        /\ n = Len(c) \/ ~Blank(c[n + 1])

TrailLen(c) ==
    IF LeadLen(c) = Len(c) THEN 0
    ELSE CHOOSE n \in 0..Len(c) :
             /\ \A k \in (Len(c) - n + 1)..Len(c) : Blank(c[k])
             /\ ~Blank(c[Len(c) - n])

\* C9: compensateRegularCell(cell, c) with c >= 1 returns lead + content + c
\* filler units + the trail less its first 2c characters when |trail| >= 2c,
\* lead + content + c filler units when c <= |trail| < 2c, and the cell
\* itself when |trail| < c.
C9_ThreeWay ==
    (pc = "returnedCell" /\ argComp >= 1) =>
        LET w       == TrailLen(argCell)
            kept    == SubSeq(argCell, 1, Len(argCell) - w)
            fillers == [k \in 1..argComp |-> "F"]
        IN  /\ w >= 2 * argComp =>
                ret[1] = kept \o fillers
                         \o SubSeq(argCell, Len(argCell) - w + 2 * argComp + 1, Len(argCell))
            /\ (argComp <= w /\ w < 2 * argComp) => ret[1] = kept \o fillers
            /\ w < argComp => ret[1] = argCell

\* compensateRegularCell has returned for a cell with leading white space,
\* content, and exactly as many trailing characters as the compensation
C9_Witness ==
    /\ pc = "returnedCell"
    /\ argComp >= 2
    /\ LeadLen(argCell) >= 1
    /\ LeadLen(argCell) < Len(argCell)
    /\ TrailLen(argCell) = argComp
    /\ ret[1] # argCell

-----------------------------------------------------------------------------
(* C10 *)

\* SEPARATOR_REGEX: white space, colons, one or more dashes, colons, white space
SeparatorCellShape(c) ==
    \E a \in 0..Len(c) : \E b \in a..Len(c) : \E d \in (b + 1)..Len(c) : \E e \in d..Len(c) :
        /\ \A k \in 1..a : Blank(c[k])
        /\ \A k \in (a + 1)..b : c[k] = ":"
        /\ \A k \in (b + 1)..d : c[k] = "-"
        /\ \A k \in (d + 1)..e : c[k] = ":"
        /\ \A k \in (e + 1)..Len(c) : Blank(c[k])

\* C10: separator integrity: when every separator cell of a table given to
\* fixTableAlignment has the separator shape, every separator cell of the
\* output holds only dashes, colons, white space and filler units, holds at
\* least one dash, and the output separator row is a separator line.
C10_SeparatorIntegrity ==
    (Fixing /\ Scanned) =>
        \A n \in 1..Len(blocks) :
            LET b == blocks[n]
            IN  (/\ Len(b.rows) >= 2
                 /\ \A c \in 1..Len(parseTableRow(b.rows[2])) :
                        SeparatorCellShape(parseTableRow(b.rows[2])[c])) =>
                    /\ \A c \in 1..Len(parseTableRow(b.out[2])) :
                           LET x == parseTableRow(b.out[2])[c]
                           IN  /\ \A k \in 1..Len(x) : x[k] \in {"-", ":", " ", "F"}
                               /\ \E k \in 1..Len(x) : x[k] = "-"
                    /\ isTableSeparatorLine(b.out[2])
                    /\ Emitted(b)[2] = b.out[2]

\* fixTableAlignment has returned a table with glyphs whose separator row
\* held a filler unit and a single-dash cell, in a column that needs
\* compensation
C10_Witness ==
    /\ Fixing /\ Returned
    /\ \E n \in 1..Len(blocks) :
           LET b == blocks[n]
               P == ParsedClean(b.rows)
           IN  /\ Len(b.rows) >= 3
               /\ Fillers(b.rows[2]) > 0
               /\ \A c \in 1..Len(parseTableRow(b.rows[2])) :
                      SeparatorCellShape(parseTableRow(b.rows[2])[c])
               /\ \E c \in 1..Len(P[2]) :
                      /\ Cardinality({k \in 1..Len(P[2][c]) : P[2][c][k] = "-"}) = 1
                      /\ DataMax(P, c) >= 2

-----------------------------------------------------------------------------
(* C11 *)

\* C11: separator rows remain valid markdown: in the output of
\* fixTableAlignment the separator row of every table block holds only
\* pipes, dashes, colons and ordinary spaces, and no filler unit, also when
\* the separator row it was given held filler units.
C11_SeparatorValid ==
    (Fixing /\ Scanned) =>
        \A n \in 1..Len(blocks) :
            Len(blocks[n].rows) >= 2 =>
                \A k \in 1..Len(Emitted(blocks[n])[2]) :
                    Emitted(blocks[n])[2][k] \in {"|", "-", ":", " "}

-----------------------------------------------------------------------------
(* C12 *)

\* C12: cleanTableAlignment replaces every filler unit on the lines of the
\* table blocks outside fences by two ordinary spaces and changes nothing
\* else: an emitted table-block line holds no filler unit and is the line
\* read with each filler unit expanded, and every other line, fenced lines
\* included, is emitted as read, filler units and all.
C12_CleanOnlyExpands ==
    (Cleaning /\ Scanned) =>
        LET inBlocks == BlockLines(lines)
            emitted  == OutLines
        IN  /\ \A k \in 1..Len(result) :
                   IF k \in inBlocks
                   THEN Expanded(lines[k], result[k]) /\ Fillers(result[k]) = 0
                   ELSE result[k] = lines[k]
            /\ Returned =>
                   /\ Len(emitted) = Len(lines)
                   /\ \A k \in 1..Len(lines) : emitted[k] = result[k]

\* cleanTableAlignment has returned a text with a filler unit on a table row
\* and another on a line inside a fence
C12_Witness ==
    /\ Cleaning /\ Returned
    /\ \E k \in BlockLines(lines) : Fillers(lines[k]) > 0 /\ OutLines[k] # lines[k]
    /\ \E k \in Fenced(lines) : Fillers(lines[k]) > 0 /\ Fillers(OutLines[k]) > 0

-----------------------------------------------------------------------------
(* C13 *)

RoundTripDone == Returned /\ plan = <<FIX>> /\ Len(outs) = 2

\* no line of a table block of the text holds a filler unit
NoFillerInBlocks(text) ==
    LET ls == SplitOn(text, NL)
    IN  \A k \in BlockLines(ls) : Fillers(ls[k]) = 0

\* C13 as stated: for every document x, fixTableAlignment of
\* cleanTableAlignment of fixTableAlignment(x) equals fixTableAlignment(x).
C13_RoundTrip == RoundTripDone => output = outs[1]

\* C13 as amended: for every document x whose table blocks hold no filler
\* unit, fixTableAlignment of cleanTableAlignment of fixTableAlignment(x)
\* equals fixTableAlignment(x).
C13_RoundTripFresh ==
    (RoundTripDone /\ NoFillerInBlocks(first)) => output = outs[1]

\* the three passes have returned on a text without filler units in its
\* blocks: the first wrote filler units, the cleaning pass removed them all
C13_Witness ==
    /\ RoundTripDone
    /\ NoFillerInBlocks(first)
    /\ Fillers(outs[1]) > Fillers(first)
    /\ Fillers(outs[2]) = Fillers(first)
    /\ outs[2] # first

-----------------------------------------------------------------------------
(* C14 *)

\* a table block with glyphs and without filler units
FreshGlyphBlock(b) ==
    /\ Len(b.rows) >= 2
    /\ ~GlyphFree(b.rows)
    /\ \A r \in 1..Len(b.rows) : Fillers(b.rows[r]) = 0

\* the header and data cells of the block whose glyph count is the maximum
\* of their column, as <<row, column>>, in the columns that have glyphs
CellsAtMax(b) ==
    LET P == ParsedClean(b.rows)
    IN  {rc \in (1..Len(P)) \X (1..MaxLen(P)) :
            /\ rc[1] # 2
            /\ rc[2] <= Len(P[rc[1]])
            /\ DataMax(P, rc[2]) >= 1
            /\ Glyphs(P[rc[1]][rc[2]]) = DataMax(P, rc[2])}

OutCell(b, rc) == parseTableRow(b.out[rc[1]])[rc[2]]

-----------------------------------------------------------------------------
(* C15 *)

\* the compensation of the cell at row r and column c of the block
Needed(b, r, c) ==
    LET P == ParsedClean(b.rows)
    IN  StatedCompensation(DataMax(P, c), Glyphs(P[r][c]))

\* the cells of the block, as <<row, column>>, that hold at least the filler
\* units they need, or need none
AdequateCells(b) ==
    {rc \in (1..Len(b.rows)) \X (1..MaxLen(ParsedClean(b.rows))) :
        /\ rc[2] <= Len(parseTableRow(b.rows[rc[1]]))
        /\ Fillers(parseTableRow(b.rows[rc[1]])[rc[2]]) >= Needed(b, rc[1], rc[2])}

-----------------------------------------------------------------------------
(* C16 *)

\* C16: isTableSeparatorLine(line) is true only if the line, between an
\* opening and a closing pipe, holds nothing but white space, colons, pipes,
\* dashes and filler units and holds at least one dash; it is false for
\* every line that holds a letter.
C16_RequiresDash ==
    pc = "returnedSep" =>
        /\ ret[1] = TRUE =>
               /\ SeparatorShape(argStr)
               /\ \E k \in 1..Len(argStr) : argStr[k] = "-"
        /\ (\E k \in 1..Len(argStr) : argStr[k] = "a") => ret[1] = FALSE

-----------------------------------------------------------------------------
(* C17 *)

\* a line that closes a fence opened with marker under the strict rule: its
\* visible text is the fence character alone, at least as often as in marker
StrictClosing(line, marker) ==
    LET t == Core(line)
    IN  /\ Len(t) >= Len(marker)
        /\ \A k \in 1..Len(t) : t[k] = marker[1]

\* the lines from a fence opener to its strict closing line, both included
RECURSIVE StrictFencedFrom(_, _, _)
StrictFencedFrom(ls, k, marker) ==
    IF k > Len(ls) THEN {}
    ELSE IF marker = <<>>
    THEN IF OpeningMarker(ls[k]) # <<>>
         THEN {k} \cup StrictFencedFrom(ls, k + 1, OpeningMarker(ls[k]))
         ELSE StrictFencedFrom(ls, k + 1, <<>>)
    ELSE {k} \cup StrictFencedFrom(ls, k + 1,
                                   IF StrictClosing(ls[k], marker) THEN <<>> ELSE marker)

\* C17: strict fence closing: a fence stays open until a line that, trimmed,
\* is the fence character alone repeated at least as often as in the opening
\* marker; the marker followed by other text closes nothing, so every line
\* up to the strict closing line, a table included, is emitted unchanged.
C17_StrictClose ==
    Scanned =>
        \A k \in 1..Len(result) :
            k \in StrictFencedFrom(lines, 1, <<>>) => result[k] = lines[k]

-----------------------------------------------------------------------------
(* C18 *)

\* C18: row round trip: buildTableRow(parseTableRow(r)) is r for every row
\* r; hence, in a table with glyphs, a row none of whose cells is rewritten
\* is emitted by fixTableAlignment byte for byte as read.
C18_RowRoundTrip ==
    (Fixing /\ Scanned) =>
        \A n \in 1..Len(blocks) :
            LET b == blocks[n]
            IN  \A r \in 1..Len(b.rows) :
                    /\ RowShape(b.rows[r]) =>
                           buildTableRow(parseTableRow(b.rows[r])) = b.rows[r]
                    /\ (/\ Len(b.rows) >= 2
                        /\ ~GlyphFree(b.rows)
                        /\ parseTableRow(b.out[r]) = parseTableRow(b.rows[r])) =>
                           Emitted(b)[r] = b.rows[r]

-----------------------------------------------------------------------------
(* C19 *)

\* the number of characters of str whose code point is in lo..hi
CountIn(str, lo, hi) ==
    Cardinality({k \in 1..Len(str) : CodePoint(str[k]) \in lo..hi})

\* the five ranges of the README: U+1F300-U+1F9FF, U+2600-U+26FF,
\* U+2700-U+27BF, U+231A-U+23FA, U+2B50-U+2B55
CountDocumented(str) ==
    CountIn(str, 127744, 129535) + CountIn(str, 9728, 9983)
    + CountIn(str, 9984, 10175) + CountIn(str, 8986, 9210)
    + CountIn(str, 11088, 11093)

\* U+2100-U+214F
CountLetterlike(str) == CountIn(str, 8448, 8527)

-----------------------------------------------------------------------------
(* C20 *)

\* C20: countEmoji counts every code point of the Extended-A range
\* U+1FA70-U+1FAFF as one double-width glyph.
C20_ExtendedA ==
    pc = "returnedCount" => ret[1] >= CountIn(argStr, 129648, 129791)

-----------------------------------------------------------------------------
(* C21 *)

\* the file a call of processFile was given, before and after the call
FileBefore(c) == c.before[c.filePath]
FileAfter(c) == c.after[c.filePath]

\* the content could be read
ReadDone(c) == FileBefore(c).kind = "file" /\ FileBefore(c).fault # "read"

\* the transformed content of the file a call was given
Transformed(c) ==
    IF c.cleanMode THEN cleanTableAlignment(FileBefore(c).data).text
                   ELSE fixTableAlignment(FileBefore(c).data).text

\* nothing fails: the file can be read and, where it has to be, written
NothingFails(c) ==
    /\ ReadDone(c)
    /\ Transformed(c) # FileBefore(c).data => FileBefore(c).fault = "none"

\* C21: every call of processFile that has returned either met no failure,
\* and then it returned true exactly when the transformed content differs
\* from the content read and left the file system as it was but for that
\* content written at the path read; or met a failure of the read or of the
\* write, and then it returned false and left the file system as it was.
C21_WriteContract ==
    \A k \in 1..Len(calls) :
        LET c == calls[k]
        IN  c.status = "returns" =>
                IF NothingFails(c)
                THEN /\ c.value = (Transformed(c) # FileBefore(c).data)
                     /\ c.after = [c.before EXCEPT ![c.filePath].data = Transformed(c)]
                ELSE /\ c.value = FALSE
                     /\ c.after = c.before

-----------------------------------------------------------------------------
(* C22 *)

IsFlag(arg) == StartsWith(arg, Str("--"))

\* a call changed the content of its file and wrote all of the new content
Written(c) ==
    /\ c.after # c.before
    /\ FileAfter(c).data = Transformed(c)

\* a path of the default list: a markdown file of the working directory, or
\* one below docs reached through readable directories that are neither
\* hidden nor node_modules
Reached(d, dir) ==
    /\ d[dir].kind = "dir" /\ d[dir].fault # "read"
    /\ dir # <<>> =>
           /\ Head(dir) = Str("docs")
           /\ \A k \in 2..Len(dir) :
                  /\ Head(dir[k]) # "."
                  /\ dir[k] # Str("node_modules")
                  /\ d[SubSeq(dir, 1, k - 1)].kind = "dir"
                  /\ d[SubSeq(dir, 1, k - 1)].fault # "read"

DefaultList(d) ==
    {p \in Paths \ {<<>>} :
        /\ d[p].kind = "file"
        /\ EndsWith(p[Len(p)], Str(".md")) \/ EndsWith(p[Len(p)], Str(".mdx"))
        /\ d[<<>>].kind = "dir" /\ d[<<>>].fault # "read"
        /\ Reached(d, SubSeq(p, 1, Len(p) - 1))}

\* what run has settled once it has read its arguments
Parsed ==
    /\ cleanMode = (\E k \in 1..Len(args) : args[k] = Str("--clean"))
    /\ \A k \in 1..Len(files) : ~IsFlag(files[k][Len(files[k])])
    /\ warned = IF \E k \in 1..Len(args) : IsFlag(args[k]) /\ args[k] # Str("--clean")
                THEN <<SelectSeq(args, LAMBDA a : IsFlag(a) /\ a # Str("--clean"))>>
                ELSE <<>>
    /\ IF \E k \in 1..Len(args) : ~IsFlag(args[k])
       THEN files = [k \in 1..Len(SelectSeq(args, LAMBDA a : ~IsFlag(a))) |->
                        <<SelectSeq(args, LAMBDA a : ~IsFlag(a))[k]>>]
       ELSE /\ {files[k] : k \in 1..Len(files)} = DefaultList(disk)
            /\ \A k, l \in 1..Len(files) : files[k] = files[l] => k = l

\* the calls of processFile made so far are those of the first files of the
\* list, in order, each in the mode of the run
InOrder ==
    /\ Len(calls) <= Len(files)
    /\ \A k \in 1..Len(calls) :
           /\ calls[k].filePath = files[k]
           /\ calls[k].cleanMode = cleanMode

\* what run returns once it has returned
Counted ==
    /\ Len(calls) = Len(files)
    /\ ret = <<Cardinality({k \in 1..Len(calls) : Written(calls[k])})>>

\* run has stopped inside a call of processFile that never returns
Stuck == pc = "hung"

\* what holds of run whether or not it comes to its end
C22_RunSafe ==
    /\ pc = "loop" => Parsed /\ InOrder
    /\ pc = "runDone" => InOrder /\ Counted

\* C22: run never stops before the end of its list; once it has read its
\* arguments the mode, the warning and the list of files are as stated, the
\* files are processed in order, and the number it returns is that of the
\* files whose content was changed and written.
C22_RunContract ==
    /\ ~Stuck
    /\ C22_RunSafe

-----------------------------------------------------------------------------
(* C23 *)

\* the marker of the fence that is open after the first k lines of a text,
\* <<>> when none is: an opener outside a fence stores its leading run, a
\* line inside a fence whose visible text starts with the stored marker
\* closes it, any other line leaves the marker as it is
RECURSIVE MarkerAfter(_, _)
MarkerAfter(ls, k) ==
    IF k = 0 THEN <<>>
    ELSE LET marker == MarkerAfter(ls, k - 1)
         IN  IF marker = <<>> THEN OpeningMarker(ls[k])
             ELSE IF Prefix(marker, Core(ls[k])) THEN <<>>
             ELSE marker

\* line k opens a fence that no later line closes
OpensForGood(ls, k) ==
    /\ MarkerAfter(ls, k - 1) = <<>>
    /\ \A j \in k..Len(ls) : MarkerAfter(ls, j) # <<>>

\* C23: fence state machine: at every step of the scan inCodeBlock is false
\* exactly when the stored marker is empty; the stored marker is the leading
\* run of the opener of the fence that is open after the lines scanned,
\* closed only by a line whose trimmed text starts with it; and the lines
\* from an opener that no later line closes to the end of the document are
\* returned as they were read.
C23_FenceMachine ==
    Scanned =>
        /\ inCodeBlock = (codeFence # <<>>)
        /\ codeFence = MarkerAfter(lines, i)
        /\ Returned =>
               \A k \in 1..Len(lines) :
                   OpensForGood(lines, k) =>
                       /\ Len(OutLines) = Len(lines)
                       /\ \A j \in k..Len(lines) : OutLines[j] = lines[j]

\* a pass has returned on a text in which a run of four backticks opens a
\* fence, a tilde line and a run of three backticks follow and leave it
\* open, and a table start follows inside the fence
C23_Witness ==
    /\ Returned /\ Len(outs) = 0
    /\ inCodeBlock /\ codeFence = Str("!!!!")
    /\ \E k \in 1..Len(lines) :
           /\ OpensForGood(lines, k)
           /\ \E j \in (k + 1)..Len(lines) : Core(lines[j]) = Str("!!!")
           /\ \E j \in (k + 1)..Len(lines) : Core(lines[j]) = Str("~~~")
           /\ \E j \in (k + 1)..Len(lines) : Pipes(lines[j]) > 0

-----------------------------------------------------------------------------
(* C24 *)

\* the lines of a block, by their numbers in the document
LinesOf(b) == (b.at + 1)..(b.at + Len(b.rows))

\* the lines the function of the pass returns for a block given to it as a
\* document of its own
Alone(b) ==
    SplitOn(traverseMarkdownTables(JoinWith(b.rows, NL), Head(plan)).text, NL)

\* C24: every table block the scan has processed starts outside the fences
\* at a line with a pipe that a separator line follows, holds exactly the
\* run of consecutive rows from there up to the first line that is no row or
\* to the end of the document, and is emitted as the function emits it when
\* the block is the whole document, whatever other tables the document
\* holds; when the pass returns, the blocks processed are the table blocks of
\* the document.
C24_BlocksIndependent ==
    Scanned =>
        /\ \A n \in 1..Len(blocks) :
               LET b == blocks[n]
               IN  /\ b.at + 1 \notin Fenced(lines)
                   /\ Pipes(lines[b.at + 1]) > 0
                   /\ b.at + 2 <= Len(lines) /\ SeparatorShape(lines[b.at + 2])
                   /\ b.rows = SubSeq(lines, b.at + 1, b.at + RowsFrom(lines, b.at + 1))
                   /\ b.at + Len(b.rows) < Len(lines) =>
                          ~RowShape(lines[b.at + Len(b.rows) + 1])
                   /\ Len(b.rows) > 0 => Emitted(b) = Alone(b)
        /\ Returned =>
               UNION {LinesOf(blocks[n]) : n \in 1..Len(blocks)} = BlockLines(lines)

\* fixTableAlignment has returned on a document of two tables with a line
\* between them, the first with a column maximum of three and the second
\* with a column maximum of one, and has written two filler units into the
\* header of the first and one into the same header of the second
C24_Witness ==
    /\ Fixing /\ Returned
    /\ Len(blocks) = 2
    /\ blocks[1].rows[1] = blocks[2].rows[1]
    /\ Glyphs(blocks[1].rows[3]) = 4 /\ Glyphs(blocks[2].rows[3]) = 1
    /\ Fillers(blocks[1].rows[1]) = 0
    /\ Fillers(blocks[1].out[1]) = 3 /\ Fillers(blocks[2].out[1]) = 1

-----------------------------------------------------------------------------
(* C25 *)

\* display width: a filler unit and a glyph take 2 columns, any other
\* character 1
Width(str) == Len(str) + Fillers(str) + Glyphs(str)

\* C25: width conservation: compensateRegularCell(cell, c) returns a text as
\* wide as the cell when the cell has at least 2c trailing whitespace
\* characters or is returned unchanged, a text wider by exactly 2c - trail
\* when c <= trail < 2c, and never a narrower text.
C25_WidthConserved ==
    (pc = "returnedCell" /\ argComp >= 1) =>
        LET trail == TrailLen(argCell)
        IN  /\ (trail >= 2 * argComp \/ ret[1] = argCell) =>
                Width(ret[1]) = Width(argCell)
            /\ (argComp <= trail /\ trail < 2 * argComp /\ ret[1] # argCell) =>
                Width(ret[1]) = Width(argCell) + 2 * argComp - trail
            /\ Width(ret[1]) >= Width(argCell)

-----------------------------------------------------------------------------
(* C26 *)

\* the header and data cells of a block, as <<row, column>>
HeaderAndDataCells(b) ==
    LET P == ParsedClean(b.rows)
    IN  {rc \in (1..Len(P)) \X (1..MaxLen(P)) : rc[1] # 2 /\ rc[2] <= Len(P[rc[1]])}

\* the column maximum and the glyph count of a cell of a block
ColumnMax(b, rc) == DataMax(ParsedClean(b.rows), rc[2])
GlyphCount(b, rc) == Glyphs(ParsedClean(b.rows)[rc[1]][rc[2]])

\* a table without filler units in which every header and data cell has at
\* least twice its needed compensation in trailing whitespace
Roomy(b) ==
    /\ Len(b.rows) >= 2
    /\ \A r \in 1..Len(b.rows) : Fillers(b.rows[r]) = 0
    /\ \A rc \in HeaderAndDataCells(b) :
           TrailLen(ParsedClean(b.rows)[rc[1]][rc[2]]) >= 2 * Needed(b, rc[1], rc[2])

\* glyphs plus filler units of a cell in the output
Total(b, rc) == Glyphs(OutCell(b, rc)) + Fillers(OutCell(b, rc))

\* the total of a levelled cell: the column maximum plus the baseline
Level(m) == m + (IF m - 1 < 2 THEN m - 1 ELSE 2)

\* C26 as stated: in the output of fixTableAlignment on a table without
\* filler units whose cells all have the room they need, all header and data
\* cells of a column that has a glyph in a data row have the same total of
\* glyphs and filler units.
C26_Levelled ==
    (Fixing /\ Scanned) =>
        \A n \in 1..Len(blocks) :
            LET b == blocks[n]
            IN  Roomy(b) =>
                    \A rc, rd \in HeaderAndDataCells(b) :
                        (rc[2] = rd[2] /\ ColumnMax(b, rc) >= 1) =>
                            Total(b, rc) = Total(b, rd)

\* C26 as amended: in such a table, in a column with maximum m >= 1, every
\* header and data cell with at least one glyph (any cell when m <= 2) and
\* at most m + min(2, m - 1) glyphs has the total m + min(2, m - 1); a cell
\* without glyph in a column with m > 2 has the total m - 1; a header cell
\* with more than m + min(2, m - 1) glyphs keeps its glyphs and gets no
\* filler unit.
C26_LevelledInRange ==
    (Fixing /\ Scanned) =>
        \A n \in 1..Len(blocks) :
            LET b == blocks[n]
            IN  Roomy(b) =>
                    \A rc \in HeaderAndDataCells(b) :
                        LET m == ColumnMax(b, rc)
                            g == GlyphCount(b, rc)
                        IN  m >= 1 =>
                                Total(b, rc) =
                                    IF g = 0 /\ m > 2 THEN m - 1
                                    ELSE IF g > Level(m) THEN g
                                    ELSE Level(m)

\* fixTableAlignment has returned on a table with room in every cell whose
\* column of maximum two holds a header without glyph, levelled with three
\* filler units, and a data cell of two glyphs, levelled with one
C26_Witness ==
    /\ Fixing /\ Returned
    /\ \E n \in 1..Len(blocks) :
           LET b == blocks[n]
           IN  /\ Roomy(b)
               /\ Len(b.rows) = 3
               /\ ColumnMax(b, <<1, 1>>) = 2
               /\ GlyphCount(b, <<1, 1>>) = 0 /\ Fillers(OutCell(b, <<1, 1>>)) = 3
               /\ GlyphCount(b, <<3, 1>>) = 2 /\ Fillers(OutCell(b, <<3, 1>>)) = 1

-----------------------------------------------------------------------------
(* C27 *)

AllBlank(str) == \A k \in 1..Len(str) : Blank(str[k])

\* C27: splitCellContent(cell) returns three texts whose concatenation is
\* the cell, the first and the last of white space only, the middle neither
\* starting nor ending with white space; a cell of white space only is all
\* in the first, with an empty last; and compensateRegularCell returns such
\* a cell unchanged for every compensation of at least 1.
C27_SplitParts ==
    /\ pc = "returnedSplit" =>
           LET parts == ret[1]
           IN  /\ Len(parts) = 3
               /\ parts[1] \o parts[2] \o parts[3] = argCell
               /\ AllBlank(parts[1]) /\ AllBlank(parts[3])
               /\ parts[2] # <<>> =>
                      ~Blank(parts[2][1]) /\ ~Blank(parts[2][Len(parts[2])])
               /\ AllBlank(argCell) => parts = <<argCell, <<>>, <<>>>>
    /\ (pc = "returnedCell" /\ argComp >= 1 /\ AllBlank(argCell)) => ret[1] = argCell

\* splitCellContent has returned for a cell of an ordinary space and a
\* filler unit only
C27_Witness ==
    /\ pc = "returnedSplit"
    /\ Len(argCell) >= 2 /\ AllBlank(argCell)
    /\ Fillers(argCell) >= 1 /\ Fillers(argCell) < Len(argCell)

\* compensateRegularCell has returned for a cell of white space long enough
\* to hold twice the compensation
C27_WitnessBlankCell ==
    /\ pc = "returnedCell"
    /\ AllBlank(argCell) /\ Len(argCell) >= 2 * argComp /\ argComp >= 1

-----------------------------------------------------------------------------
(* C28 *)

\* a text with its white space (line feeds included) and its filler units
\* deleted
Visible(str) == SelectSeq(str, LAMBDA c : ~Blank(c) /\ c # NL)

\* C28: content preservation: the text fixTableAlignment returns, with all
\* white space and all filler units deleted, is the input with all white
\* space and all filler units deleted.
C28_ContentPreserved ==
    (Fixing /\ Returned) => Visible(output) = Visible(content)

-----------------------------------------------------------------------------
(* C29 *)

\* what a line holds between its pipes: its characters other than pipes,
\* white space and filler units
CellText(line) == SelectSeq(line, LAMBDA c : ~Blank(c) /\ c # PIPE)

\* C29: structure preservation: the text fixTableAlignment or
\* cleanTableAlignment returns has as many lines as the input; a line outside
\* the table blocks is the input line; a line of a table block holds between
\* its pipes what the input line holds, has as many cells and as many pipes.
C29_StructurePreserved ==
    Returned =>
        LET out == OutLines
            inBlocks == BlockLines(lines)
        IN  /\ Len(out) = Len(lines)
            /\ \A k \in 1..Len(lines) :
                   IF k \in inBlocks
                   THEN /\ CellText(out[k]) = CellText(lines[k])
                        /\ CellCount(out[k]) = CellCount(lines[k])
                        /\ Pipes(out[k]) = Pipes(lines[k])
                   ELSE out[k] = lines[k]

-----------------------------------------------------------------------------
(* C30 *)

\* the second of two cleanTableAlignment passes has returned
CleanedTwice == Returned /\ plan = <<CLEAN>> /\ Len(outs) = 1

\* C30: cleanTableAlignment is idempotent and keeps the table blocks where
\* they are: the second of two successive passes returns the text the first
\* returned, and the lines it processes as table rows are, by their numbers,
\* the lines of the table blocks of the first document.
C30_CleanIdempotent ==
    CleanedTwice =>
        /\ output = outs[1]
        /\ BlockLines(lines) = BlockLines(SplitOn(first, NL))
        /\ UNION {LinesOf(blocks[n]) : n \in 1..Len(blocks)}
               = BlockLines(SplitOn(first, NL))

\* the second pass has returned for a document whose first table held filler
\* units in its separator and in a cell, which the first pass replaced
C30_Witness ==
    /\ CleanedTwice
    /\ first # outs[1]
    /\ LET ls == SplitOn(first, NL)
       IN  /\ 2 \in BlockLines(ls) /\ Fillers(ls[2]) = 2
           /\ 3 \in BlockLines(ls) /\ Fillers(ls[3]) = 1
    /\ Fillers(output) = 0
====
